---------------------------- MODULE Spec2Model ----------------------------
(***************************************************************************)
(* State-machine model of the ESP32 coffee machine control core:          *)
(* MachineController (FSM), HAL (relays, debounced limit switches) and    *)
(* SettingsManager, translated from coffee-machine-esp32/src.             *)
(*                                                                         *)
(* Time is millis() in milliseconds.  Every update() call (a "tick")      *)
(* happens at a later clock value than the previous one.                  *)
(***************************************************************************)
EXTENDS Integers, FiniteSets, Sequences, TLC

(***************************************************************************)
(* Bounds of the model (not program constants).                           *)
(***************************************************************************)
\* a tick is taken only while it leaves both debounce counters at or below
\* this value (a pin level changes before it has been sampled more often)
MaxCount == 6
\* start() is called at most this many times
MaxStarts == 2
\* cooperative runs: the thermocouple reads the preheat target at the latest
\* this many milliseconds after the preheat phase was entered
CoopHeatMs == 2000
\* the mixer carriage travels this many ticks between its two limit switches
Travel == 2
\* a limit pin is sampled at most this many times in a row at one level
MaxStreak == 260

(***************************************************************************)
(* Config.h                                                                *)
(***************************************************************************)
RELAY_TANK1_SUGAR == 0
RELAY_TANK2_COFFEE == 1
RELAY_TANK3_NESCAFE == 2
RELAY_PUMP_WATER == 3
RELAY_PUMP_MILK == 4
RELAY_HEATER_INTERNAL == 5
RELAY_HEATER_EXTERNAL == 6
RELAY_MIXER_ROTATE == 7
RELAY_MIXER_UP == 8
RELAY_MIXER_DOWN == 9

DEBOUNCE_READS == 5
LIMIT_TIMEOUT_MS == 10000
INTERNAL_HEATER_ABS_MAX == 110

\* Arduino pin levels
LOW == 0
HIGH == 1
\* width of uint8_t debounceCount[]
Uint8Mod == 256

\* readMAX6675 returns NAN on a thermocouple fault; the readings proper are
\* never negative (a 12-bit count times 0.25)
NAN == -1

(***************************************************************************)
(* MachineController.h : enum MachineState, enum DrinkMode                *)
(***************************************************************************)
IDLE == "IDLE"
VALIDATE == "VALIDATE"
DISPENSE_SOLIDS == "DISPENSE_SOLIDS"
HEAT_INTERNAL_PREHEAT == "HEAT_INTERNAL_PREHEAT"
HEAT_INTERNAL_ACTIVE == "HEAT_INTERNAL_ACTIVE"
HEAT_EXTERNAL == "HEAT_EXTERNAL"
DISPENSE_LIQUID == "DISPENSE_LIQUID"
MIX_DOWN == "MIX_DOWN"
MIX_RUN == "MIX_RUN"
MIX_UP == "MIX_UP"
DONE == "DONE"
ERROR_STATE == "ERROR"
SAFE_STOP == "SAFE_STOP"

MachineState ==
  { IDLE, VALIDATE, DISPENSE_SOLIDS, HEAT_INTERNAL_PREHEAT,
    HEAT_INTERNAL_ACTIVE, HEAT_EXTERNAL, DISPENSE_LIQUID, MIX_DOWN, MIX_RUN,
    MIX_UP, DONE, ERROR_STATE, SAFE_STOP }

MODE_NONE == "MODE_NONE"
MODE_COFFEE == "MODE_COFFEE"
MODE_HOTWATER == "MODE_HOTWATER"
MODE_NESCAFE == "MODE_NESCAFE"
MODE_CLEANING == "MODE_CLEANING"

(***************************************************************************)
(* SettingsManager                                                         *)
(***************************************************************************)
loadDefaults ==
  [ tank1Time |-> 2, tank2Time |-> 3, tank3Time |-> 3,
    waterPumpTime |-> 5, milkPumpTime |-> 4,
    intHeaterTime |-> 30, intHeaterTemp |-> 95,
    extHeaterTime |-> 45, extHeaterTemp |-> 90, mixerTime |-> 10 ]

\* validate not looking at the field the logic ignores
validateLoose(s) ==
  /\ s.tank1Time >= 0 /\ s.tank1Time <= 30
  /\ s.tank2Time >= 0 /\ s.tank2Time <= 30
  /\ s.tank3Time >= 0 /\ s.tank3Time <= 30
  /\ s.waterPumpTime >= 0 /\ s.waterPumpTime <= 60
  /\ s.milkPumpTime >= 0 /\ s.milkPumpTime <= 60
  /\ s.intHeaterTime >= 10 /\ s.intHeaterTime <= 120
  /\ s.intHeaterTemp >= 60 /\ s.intHeaterTemp <= 100
  /\ s.extHeaterTime >= 10 /\ s.extHeaterTime <= 180
  /\ s.mixerTime >= 5 /\ s.mixerTime <= 60

validate(s) ==
  /\ s.tank1Time >= 0 /\ s.tank1Time <= 30
  /\ s.tank2Time >= 0 /\ s.tank2Time <= 30
  /\ s.tank3Time >= 0 /\ s.tank3Time <= 30
  /\ s.waterPumpTime >= 0 /\ s.waterPumpTime <= 60
  /\ s.milkPumpTime >= 0 /\ s.milkPumpTime <= 60
  /\ s.intHeaterTime >= 10 /\ s.intHeaterTime <= 120
  /\ s.intHeaterTemp >= 60 /\ s.intHeaterTemp <= 100
  /\ s.extHeaterTime >= 10 /\ s.extHeaterTime <= 180
  /\ s.extHeaterTemp >= 60 /\ s.extHeaterTemp <= 100
  /\ s.mixerTime >= 5 /\ s.mixerTime <= 60


(***************************************************************************)
(* Order model (MachineController.h : struct OrderParams).  The command   *)
(* surface passes only the documented option strings.                      *)
(***************************************************************************)
MkOrder(mode, brewBase, hotLiquid, milkRatio, size, sugar, cleanMilk, cleanWater) ==
  [ mode |-> mode, brewBase |-> brewBase, hotLiquid |-> hotLiquid,
    milkRatio |-> milkRatio, size |-> size, sugar |-> sugar,
    cleanMilk |-> cleanMilk, cleanWater |-> cleanWater ]

\* The orders issued in the model: every recipe with each of its liquid
\* options, at both sizes and sugar levels across the set, and an order
\* whose mode is none of the four recipes.
Orders ==
  { MkOrder(MODE_NONE, "", "", "", "Single", "Low", FALSE, FALSE),
    MkOrder(MODE_COFFEE, "Water", "", "", "Single", "Medium", FALSE, FALSE),
    MkOrder(MODE_HOTWATER, "", "milk_extra", "", "Double", "High", FALSE, FALSE),
    MkOrder(MODE_NESCAFE, "", "", "medium", "Double", "Low", FALSE, FALSE),
    MkOrder(MODE_CLEANING, "", "", "", "Single", "Low", TRUE, TRUE) }

(***************************************************************************)
(* HAL : relays.  m is the machine (controller and HAL fields together).  *)
(***************************************************************************)
relayOn(m, relay) ==
  IF ~m.mcpReady \/ relay > RELAY_MIXER_DOWN THEN m
  ELSE [m EXCEPT !.relays = @ \cup { relay }]

relayOff(m, relay) ==
  IF ~m.mcpReady \/ relay > RELAY_MIXER_DOWN THEN m
  ELSE [m EXCEPT !.relays = @ \ { relay }]

allRelaysOff(m) ==
  IF ~m.mcpReady THEN m
  ELSE [m EXCEPT !.relays = @ \ (0 .. RELAY_MIXER_DOWN)]

(***************************************************************************)
(* HAL : debounced limit switches.  idx 1 is the upper switch, idx 2 the  *)
(* lower one (debounceState[0], debounceState[1] in the source); current  *)
(* is the level digitalRead returns.                                       *)
(***************************************************************************)
debounceStep(m, idx, current) ==
  IF current = m.debounceState[idx]
  THEN [m EXCEPT !.debounceCount[idx] = (@ + 1) % Uint8Mod]
  ELSE [m EXCEPT !.debounceState[idx] = current, !.debounceCount[idx] = 1]

\* the value debounceRead returns (a pin level)
debounceRead(m, idx, current) ==
  IF current = m.debounceState[idx]
     /\ debounceStep(m, idx, current).debounceCount[idx] >= DEBOUNCE_READS
  THEN current
  ELSE 1 - current

readLimitUpper(m, e) == debounceRead(m, 1, e.upper) = LOW
readLimitLower(m, e) == debounceRead(m, 2, e.lower) = LOW
\* the HAL after the read
afterReadUpper(m, e) == debounceStep(m, 1, e.upper)
afterReadLower(m, e) == debounceStep(m, 2, e.lower)

(***************************************************************************)
(* MachineController : helpers                                             *)
(***************************************************************************)
isBusy(m) == m.state # IDLE /\ m.state # ERROR_STATE

setState(m, newState, now) ==
  [m EXCEPT !.state = newState, !.stateStartTime = now]

safeStop(m) == [allRelaysOff(m) EXCEPT !.currentStep = "Stopped"]

\* setError forgetting safeStop
setErrorNoSafeStop(m, error, now) ==
  setState([m EXCEPT !.errorMsg = error], ERROR_STATE, now)

setError(m, error, now) ==
  safeStop(setState([m EXCEPT !.errorMsg = error], ERROR_STATE, now))

\* checkCup raising its error during Validate only
checkCupValidateOnly(m, e) ==
  IF ~e.cup /\ m.state = VALIDATE THEN setError(m, "NO_CUP", e.now) ELSE m

\* checkCup raising NO_CUP_DURING_RUN whatever the phase
checkCupOneKind(m, e) ==
  IF ~e.cup THEN safeStop(setError(m, "NO_CUP_DURING_RUN", e.now)) ELSE m

\* checkCup returns e.cup; this is the machine it leaves behind
checkCup(m, e) ==
  IF ~e.cup
  THEN IF m.state = IDLE \/ m.state = VALIDATE
       THEN setError(m, "NO_CUP", e.now)
       ELSE safeStop(setError(m, "NO_CUP_DURING_RUN", e.now))
  ELSE m

getSizeMultiplier(m) == IF m.order.size = "Double" THEN 2 ELSE 1

\* sugar multiplier growing by one per level
getSugarMultiplierLinear(m) ==
  IF m.order.sugar = "High" THEN 3
  ELSE IF m.order.sugar = "Medium" THEN 2
  ELSE 1

getSugarMultiplier(m) ==
  IF m.order.sugar = "High" THEN 4
  ELSE IF m.order.sugar = "Medium" THEN 2 ELSE 1

Max(a, b) == IF a >= b THEN a ELSE b

(***************************************************************************)
(* MachineController : sub-phases.  Each operator is the machine after    *)
(* the call; e is what the sensors and the clock return during the tick.  *)
(***************************************************************************)
runDispenseSolids(m, e) ==
  IF ~e.cup THEN checkCup(m, e)
  ELSE LET m1 == [m EXCEPT !.currentStep = "Dispensing solids"] IN
       IF m.order.mode = MODE_COFFEE
       THEN relayOn(relayOn(m1, RELAY_TANK1_SUGAR), RELAY_TANK2_COFFEE)
       ELSE IF m.order.mode = MODE_NESCAFE
       THEN relayOn(relayOn(m1, RELAY_TANK1_SUGAR), RELAY_TANK3_NESCAFE)
       ELSE IF m.order.mode = MODE_HOTWATER
       THEN relayOn(m1, RELAY_TANK1_SUGAR)
       ELSE m1

runHeatInternalPreheat(m, e) ==
  IF ~e.cup THEN checkCup(m, e)
  ELSE LET m1 == [m EXCEPT !.currentStep = "Preheating"]
           m2 == IF m1.heaterStartTime = 0
                 THEN [relayOn([m1 EXCEPT !.heaterStartTime = e.now],
                               RELAY_HEATER_INTERNAL)
                         EXCEPT !.preheatTarget = m.cfg.intHeaterTemp - 5]
                 ELSE m1
           elapsed == e.now - m2.heaterStartTime
       IN  IF elapsed > m.cfg.intHeaterTime * 1000
           THEN relayOff(setError(m2, "HEAT_TIMEOUT", e.now), RELAY_HEATER_INTERNAL)
           ELSE IF e.temp # NAN /\ e.temp >= m2.preheatTarget
           THEN [setState(m2, HEAT_INTERNAL_ACTIVE, e.now) EXCEPT !.pumpStartTime = 0]
           ELSE m2

\* first entry of runHeatInternalActive: durations and the first pump
startPumps(m, e) ==
  LET m1 == [m EXCEPT !.pumpStartTime = e.now] IN
  IF m.order.mode = MODE_HOTWATER
  THEN IF m.order.hotLiquid = "water"
       THEN relayOn([m1 EXCEPT !.pumpDuration =
                       getSizeMultiplier(m) * m.cfg.waterPumpTime * 1000],
                    RELAY_PUMP_WATER)
       ELSE IF m.order.hotLiquid = "milk_medium"
       THEN relayOn([m1 EXCEPT !.pumpDuration =
                       getSizeMultiplier(m) * m.cfg.milkPumpTime * 1000],
                    RELAY_PUMP_MILK)
       ELSE IF m.order.hotLiquid = "milk_extra"
       THEN relayOn([m1 EXCEPT !.pumpDuration =
                       getSizeMultiplier(m) * m.cfg.milkPumpTime * 2000],
                    RELAY_PUMP_MILK)
       ELSE m1
  ELSE IF m.order.mode = MODE_NESCAFE
  THEN LET waterTime == getSizeMultiplier(m) * m.cfg.waterPumpTime * 1000
           milkTime == getSizeMultiplier(m) * m.cfg.milkPumpTime * 1000
           m2 == IF m.order.milkRatio = "none"
                 THEN [m1 EXCEPT !.waterDuration = waterTime, !.milkDuration = 0]
                 ELSE IF m.order.milkRatio = "medium"
                 THEN [m1 EXCEPT !.waterDuration = (waterTime * 3) \div 4,
                                 !.milkDuration = milkTime \div 4]
                 ELSE IF m.order.milkRatio = "extra"
                 THEN [m1 EXCEPT !.waterDuration = waterTime \div 2,
                                 !.milkDuration = milkTime \div 2]
                 ELSE m1
       IN  [relayOn(m2, RELAY_PUMP_WATER)
              EXCEPT !.pumpDuration = m2.waterDuration + m2.milkDuration]
  ELSE m1

\* bang-bang control without its hysteresis band
bangBangNoBand(m, temp) ==
  IF temp < m.cfg.intHeaterTemp THEN relayOn(m, RELAY_HEATER_INTERNAL)
  ELSE relayOff(m, RELAY_HEATER_INTERNAL)

\* bang-bang heater control of runHeatInternalActive
bangBang(m, temp) ==
  IF temp < m.cfg.intHeaterTemp - 2 THEN relayOn(m, RELAY_HEATER_INTERNAL)
  ELSE IF temp > m.cfg.intHeaterTemp + 2 THEN relayOff(m, RELAY_HEATER_INTERNAL)
  ELSE m

\* the end of runHeatInternalActive: milk switch, then pump complete
finishPumps(m, pumpElapsed, e) ==
  LET m1 == IF m.order.mode = MODE_NESCAFE /\ pumpElapsed > m.waterDuration
               /\ m.milkDuration > 0
            THEN relayOn(relayOff(m, RELAY_PUMP_WATER), RELAY_PUMP_MILK)
            ELSE m
  IN  IF pumpElapsed >= m1.pumpDuration
      THEN setState(
             [relayOff(relayOff(relayOff(m1, RELAY_PUMP_WATER), RELAY_PUMP_MILK),
                       RELAY_HEATER_INTERNAL)
                EXCEPT !.heaterStartTime = 0],
             MIX_DOWN, e.now)
      ELSE m1

runHeatInternalActive(m, e) ==
  IF ~e.cup THEN checkCup(m, e)
  ELSE LET m1 == [m EXCEPT !.currentStep = "Heating and pumping"]
           m2 == IF m1.pumpStartTime = 0 THEN startPumps(m1, e) ELSE m1
           pumpElapsed == e.now - m2.pumpStartTime
           heatElapsed == e.now - m2.heaterStartTime
       IN  IF heatElapsed > m.cfg.intHeaterTime * 1000
           THEN relayOff(relayOff(relayOff(setError(m2, "HEAT_TIMEOUT", e.now),
                                           RELAY_HEATER_INTERNAL),
                                  RELAY_PUMP_WATER),
                         RELAY_PUMP_MILK)
           ELSE IF e.temp # NAN
           THEN LET m3 == bangBang(m2, e.temp) IN
                IF e.temp > INTERNAL_HEATER_ABS_MAX
                THEN relayOff(setError(m3, "SENSOR_FAIL", e.now),
                              RELAY_HEATER_INTERNAL)
                ELSE finishPumps(m3, pumpElapsed, e)
           ELSE finishPumps(m2, pumpElapsed, e)

runHeatExternal(m, e) ==
  IF ~e.cup THEN checkCup(m, e)
  ELSE LET m1 == [m EXCEPT !.currentStep = "Cup warming"]
           m2 == IF m1.stepStartTime = 0
                 THEN relayOn([m1 EXCEPT !.stepStartTime = e.now],
                              RELAY_HEATER_EXTERNAL)
                 ELSE m1
           elapsed == e.now - m2.stepStartTime
       IN  IF elapsed >= m.cfg.extHeaterTime * 1000
           THEN setState([relayOff(m2, RELAY_HEATER_EXTERNAL)
                            EXCEPT !.stepStartTime = 0],
                         MIX_DOWN, e.now)
           ELSE m2

\* the common tail of both branches of runDispenseLiquid
pumpsDone(m, e, next) ==
  IF e.now - m.pumpStartTime >= m.pumpDuration
  THEN setState([relayOff(relayOff(m, RELAY_PUMP_WATER), RELAY_PUMP_MILK)
                   EXCEPT !.pumpStartTime = 0],
                next, e.now)
  ELSE m

runDispenseLiquid(m, e) ==
  IF ~e.cup THEN checkCup(m, e)
  ELSE IF m.order.mode = MODE_COFFEE
  THEN LET m1 == [m EXCEPT !.currentStep = "Dispensing liquid"]
           m2 == IF m1.pumpStartTime = 0
                 THEN IF m.order.brewBase = "Water"
                      THEN relayOn([m1 EXCEPT !.pumpStartTime = e.now,
                                      !.pumpDuration = getSizeMultiplier(m)
                                         * m.cfg.waterPumpTime * 1000],
                                   RELAY_PUMP_WATER)
                      ELSE relayOn([m1 EXCEPT !.pumpStartTime = e.now,
                                      !.pumpDuration = getSizeMultiplier(m)
                                         * m.cfg.milkPumpTime * 1000],
                                   RELAY_PUMP_MILK)
                 ELSE m1
       IN  pumpsDone(m2, e, HEAT_EXTERNAL)
  ELSE IF m.order.mode = MODE_CLEANING
  THEN LET m1 == [m EXCEPT !.currentStep = "Cleaning"]
           w == IF m.order.cleanWater THEN relayOn(m1, RELAY_PUMP_WATER) ELSE m1
           k == IF m.order.cleanMilk THEN relayOn(w, RELAY_PUMP_MILK) ELSE w
           m2 == IF m1.pumpStartTime = 0
                 THEN [k EXCEPT !.pumpStartTime = e.now,
                         !.pumpDuration =
                            Max(IF m.order.cleanWater THEN m.cfg.waterPumpTime ELSE 0,
                                IF m.order.cleanMilk THEN m.cfg.milkPumpTime ELSE 0)
                            * 1000]
                 ELSE m1
       IN  pumpsDone(m2, e, DONE)
  ELSE m

\* the tail of runMixDown, after the first-entry block
mixDownTravel(m, e) ==
  IF readLimitLower(m, e)
  THEN setState([relayOff(afterReadLower(m, e), RELAY_MIXER_DOWN)
                   EXCEPT !.stepStartTime = 0],
                MIX_RUN, e.now)
  ELSE IF e.now - m.stepStartTime > LIMIT_TIMEOUT_MS
  THEN setError(relayOff(afterReadLower(m, e), RELAY_MIXER_DOWN),
                "TIMEOUT_LIMIT", e.now)
  ELSE afterReadLower(m, e)

runMixDown(m, e) ==
  IF ~e.cup THEN checkCup(m, e)
  ELSE LET m1 == [m EXCEPT !.currentStep = "Mixer moving down"] IN
       IF m1.stepStartTime = 0
       THEN LET m2 == [m1 EXCEPT !.stepStartTime = e.now]
                u == afterReadUpper(m2, e)
            IN  IF readLimitUpper(m2, e)
                THEN \* && evaluates readLimitLower only now
                     IF readLimitLower(u, e)
                     THEN setError(afterReadLower(u, e), "LIMIT_INVALID", e.now)
                     ELSE mixDownTravel(relayOn(afterReadLower(u, e),
                                                RELAY_MIXER_DOWN), e)
                ELSE mixDownTravel(relayOn(u, RELAY_MIXER_DOWN), e)
       ELSE mixDownTravel(m1, e)

runMixRun(m, e) ==
  IF ~e.cup THEN checkCup(m, e)
  ELSE LET m1 == [m EXCEPT !.currentStep = "Mixing"]
           m2 == IF m1.stepStartTime = 0
                 THEN relayOn([m1 EXCEPT !.stepStartTime = e.now],
                              RELAY_MIXER_ROTATE)
                 ELSE m1
       IN  IF e.now - m2.stepStartTime >= m.cfg.mixerTime * 1000
           THEN setState([relayOff(m2, RELAY_MIXER_ROTATE)
                            EXCEPT !.stepStartTime = 0],
                         MIX_UP, e.now)
           ELSE m2

runMixUp(m, e) ==
  IF ~e.cup THEN checkCup(m, e)
  ELSE LET m1 == [m EXCEPT !.currentStep = "Mixer moving up"]
           m2 == IF m1.stepStartTime = 0
                 THEN relayOn([m1 EXCEPT !.stepStartTime = e.now],
                              RELAY_MIXER_UP)
                 ELSE m1
           r == afterReadUpper(m2, e)
       IN  IF readLimitUpper(m2, e)
           THEN setState([relayOff(r, RELAY_MIXER_UP) EXCEPT !.stepStartTime = 0],
                         DONE, e.now)
           ELSE IF e.now - m2.stepStartTime > LIMIT_TIMEOUT_MS
           THEN setError(relayOff(r, RELAY_MIXER_UP), "TIMEOUT_LIMIT", e.now)
           ELSE r

(***************************************************************************)
(* MachineController : recipe sequencers and update()                     *)
(***************************************************************************)
\* case VALIDATE going to the liquid phase whatever the recipe
validateThenLiquid(m, e, next) ==
  IF ~e.cup THEN checkCup(m, e) ELSE setState(m, DISPENSE_LIQUID, e.now)

\* case VALIDATE of the four sequencers
validateThen(m, e, next) ==
  IF ~e.cup THEN checkCup(m, e) ELSE setState(m, next, e.now)

\* case DONE of the four sequencers
done(m, e) ==
  [setState(allRelaysOff(m), IDLE, e.now) EXCEPT !.currentStep = ""]

\* case DISPENSE_SOLIDS: duration is in seconds, tanks the relays to release
\* case DISPENSE_SOLIDS moving on without releasing the tanks
solidsThenKeepTanks(m, e, duration, tanks, next) ==
  LET m1 == runDispenseSolids(m, e) IN
  IF m1.state = DISPENSE_SOLIDS /\ e.now - m1.stateStartTime > duration * 1000
  THEN setState(m1, next, e.now)
  ELSE m1

solidsThen(m, e, duration, tanks, next) ==
  LET m1 == runDispenseSolids(m, e) IN
  IF m1.state = DISPENSE_SOLIDS /\ e.now - m1.stateStartTime > duration * 1000
  THEN setState([m1 EXCEPT !.relays = IF m1.mcpReady THEN @ \ tanks ELSE @],
                next, e.now)
  ELSE m1

updateCoffee(m, e) ==
  CASE m.state = VALIDATE -> validateThen(m, e, DISPENSE_SOLIDS)
    [] m.state = DISPENSE_SOLIDS ->
         solidsThen(m, e,
                    getSugarMultiplier(m) * m.cfg.tank1Time
                      + getSizeMultiplier(m) * m.cfg.tank2Time,
                    { RELAY_TANK1_SUGAR, RELAY_TANK2_COFFEE }, DISPENSE_LIQUID)
    [] m.state = DISPENSE_LIQUID -> runDispenseLiquid(m, e)
    [] m.state = HEAT_EXTERNAL -> runHeatExternal(m, e)
    [] m.state = MIX_DOWN -> runMixDown(m, e)
    [] m.state = MIX_RUN -> runMixRun(m, e)
    [] m.state = MIX_UP -> runMixUp(m, e)
    [] m.state = DONE -> done(m, e)
    [] OTHER -> m

updateHotWater(m, e) ==
  CASE m.state = VALIDATE -> validateThen(m, e, DISPENSE_SOLIDS)
    [] m.state = DISPENSE_SOLIDS ->
         solidsThen(m, e, getSugarMultiplier(m) * m.cfg.tank1Time,
                    { RELAY_TANK1_SUGAR }, HEAT_INTERNAL_PREHEAT)
    [] m.state = HEAT_INTERNAL_PREHEAT -> runHeatInternalPreheat(m, e)
    [] m.state = HEAT_INTERNAL_ACTIVE -> runHeatInternalActive(m, e)
    [] m.state = MIX_DOWN -> runMixDown(m, e)
    [] m.state = MIX_RUN -> runMixRun(m, e)
    [] m.state = MIX_UP -> runMixUp(m, e)
    [] m.state = DONE -> done(m, e)
    [] OTHER -> m

updateNescafe(m, e) ==
  CASE m.state = VALIDATE -> validateThen(m, e, DISPENSE_SOLIDS)
    [] m.state = DISPENSE_SOLIDS ->
         solidsThen(m, e,
                    getSugarMultiplier(m) * m.cfg.tank1Time
                      + getSizeMultiplier(m) * m.cfg.tank3Time,
                    { RELAY_TANK1_SUGAR, RELAY_TANK3_NESCAFE },
                    HEAT_INTERNAL_PREHEAT)
    [] m.state = HEAT_INTERNAL_PREHEAT -> runHeatInternalPreheat(m, e)
    [] m.state = HEAT_INTERNAL_ACTIVE -> runHeatInternalActive(m, e)
    [] m.state = MIX_DOWN -> runMixDown(m, e)
    [] m.state = MIX_RUN -> runMixRun(m, e)
    [] m.state = MIX_UP -> runMixUp(m, e)
    [] m.state = DONE -> done(m, e)
    [] OTHER -> m

updateCleaning(m, e) ==
  CASE m.state = VALIDATE -> validateThen(m, e, DISPENSE_LIQUID)
    [] m.state = DISPENSE_LIQUID -> runDispenseLiquid(m, e)
    [] m.state = DONE -> done(m, e)
    [] OTHER -> m

\* update() without its early return in Idle and Error
updateNoEarlyReturn(m, e) ==
  CASE m.order.mode = MODE_COFFEE -> updateCoffee(m, e)
    [] m.order.mode = MODE_HOTWATER -> updateHotWater(m, e)
    [] m.order.mode = MODE_NESCAFE -> updateNescafe(m, e)
    [] m.order.mode = MODE_CLEANING -> updateCleaning(m, e)
    [] OTHER -> setError(m, "BAD_MODE", e.now)

update(m, e) ==
  IF m.state = IDLE \/ m.state = ERROR_STATE THEN m
  ELSE CASE m.order.mode = MODE_COFFEE -> updateCoffee(m, e)
         [] m.order.mode = MODE_HOTWATER -> updateHotWater(m, e)
         [] m.order.mode = MODE_NESCAFE -> updateNescafe(m, e)
         [] m.order.mode = MODE_CLEANING -> updateCleaning(m, e)
         [] OTHER -> setError(m, "BAD_MODE", e.now)

\* start() without the isBusy check
startNoBusyCheck(m, params, settings, now) ==
  IF ~m.mcpReady THEN [ret |-> FALSE, m |-> setError(m, "NOT_READY", now)]
  ELSE [ret |-> TRUE,
        m |-> setState([m EXCEPT !.order = params, !.cfg = settings,
                                 !.errorMsg = ""],
                       VALIDATE, now)]

\* start(): ret is the value returned, m the machine it leaves behind
start(m, params, settings, now) ==
  IF ~m.mcpReady THEN [ret |-> FALSE, m |-> setError(m, "NOT_READY", now)]
  ELSE IF isBusy(m) THEN [ret |-> FALSE, m |-> setError(m, "BUSY", now)]
  ELSE [ret |-> TRUE,
        m |-> setState([m EXCEPT !.order = params, !.cfg = settings,
                                 !.errorMsg = ""],
                       VALIDATE, now)]

stop(m) == safeStop(m)

(***************************************************************************)
(* SettingsManager::save : ret is the value returned, current the stored  *)
(* settings afterwards                                                     *)
(***************************************************************************)
save(cur, s) ==
  IF ~validate(s) THEN [ret |-> FALSE, current |-> cur]
  ELSE [ret |-> TRUE, current |-> s]

\* a second valid configuration, with short phases
FastSettings ==
  [ tank1Time |-> 1, tank2Time |-> 1, tank3Time |-> 2,
    waterPumpTime |-> 2, milkPumpTime |-> 1,
    intHeaterTime |-> 10, intHeaterTemp |-> 95,
    extHeaterTime |-> 10, extHeaterTemp |-> 60, mixerTime |-> 5 ]

\* a configuration save() must reject
BadSettings == [FastSettings EXCEPT !.intHeaterTime = 5]

SettingsInputs == { loadDefaults, FastSettings, BadSettings }

(***************************************************************************)
(* The clock.  The code uses millis() only in differences with a recorded *)
(* start time and compares a start time only with 0 ("not recorded").     *)
(* Clock values are therefore kept relative to the current instant:       *)
(* millis() reads NowRef at every call, and when d ms pass, every         *)
(* recorded start time moves d ms into the past.  A start time further    *)
(* back than the horizon stays at the horizon: the horizon lies beyond    *)
(* every duration the code compares an elapsed time with, so no           *)
(* comparison can tell such ages apart.                                    *)
(***************************************************************************)
NowRef == 1000000

\* the longest duration (ms) the FSM can compare an elapsed time with under
\* settings s, plus one tick
Horizon(s) ==
  1000
  + 1000 * Max(Max(Max(s.extHeaterTime, s.intHeaterTime),
                   Max(s.mixerTime, LIMIT_TIMEOUT_MS \div 1000)),
               Max(4 * s.tank1Time + 2 * Max(s.tank2Time, s.tank3Time),
                   2 * Max(s.waterPumpTime + s.milkPumpTime, 2 * s.milkPumpTime)))

\* a recorded start time t after d more ms, under horizon h
Older(t, d, h) == IF t = 0 THEN 0 ELSE Max(t - d, NowRef - h)

\* the machine d ms later, no code having run
Aged(m, d, h) ==
  [m EXCEPT !.stateStartTime = Older(@, d, h),
            !.heaterStartTime = Older(@, d, h),
            !.pumpStartTime = Older(@, d, h),
            !.stepStartTime = Older(@, d, h)]

(***************************************************************************)
(* State                                                                   *)
(***************************************************************************)
VARIABLES
  state, order, cfg, currentStep, errorMsg,          \* MachineController
  stateStartTime, heaterStartTime, pumpStartTime, stepStartTime,
  preheatTarget, pumpDuration, waterDuration, milkDuration,
  mcpReady, relays, debounceState, debounceCount,    \* HAL
  current,                                           \* SettingsManager
  carriage,  \* plant: mixer carriage position, 0 (top) .. Travel (bottom)
  raw,       \* history: the level each limit pin had when last read directly
  streak,    \* history: how many direct reads in a row found that level
  debounced, \* history: what the last direct read of each switch returned
  asked,     \* history: the argument of the last save()
  answer,    \* history: what the last save() returned
  starts,    \* history: number of start() calls so far
  stopped,   \* history: stop() was called in flight, no start() accepted since
  heaterOnSince, \* history: when the internal heater first went on in the
             \* heat phases of the running cycle, 0 if it has not
  travelSince \* history: when update() first ran in the mixer travel state
             \* (MixDown, MixUp) the cycle is in, 0 if it has not

ctlVars ==
  << state, order, cfg, currentStep, errorMsg, stateStartTime,
     heaterStartTime, pumpStartTime, stepStartTime, preheatTarget,
     pumpDuration, waterDuration, milkDuration >>
halVars == << mcpReady, relays, debounceState, debounceCount >>
readVars == << raw, streak, debounced >>
saveVars == << asked, answer >>
vars ==
  << ctlVars, halVars, current, carriage, readVars, saveVars, starts, stopped,
     heaterOnSince, travelSince >>

\* the machine as one record, and its write-back
Machine ==
  [ state |-> state, order |-> order, cfg |-> cfg,
    currentStep |-> currentStep, errorMsg |-> errorMsg,
    stateStartTime |-> stateStartTime, heaterStartTime |-> heaterStartTime,
    pumpStartTime |-> pumpStartTime, stepStartTime |-> stepStartTime,
    preheatTarget |-> preheatTarget, pumpDuration |-> pumpDuration,
    waterDuration |-> waterDuration, milkDuration |-> milkDuration,
    mcpReady |-> mcpReady, relays |-> relays,
    debounceState |-> debounceState, debounceCount |-> debounceCount ]

Becomes(m) ==
  /\ state' = m.state
  /\ order' = m.order
  /\ cfg' = m.cfg
  /\ currentStep' = m.currentStep
  /\ errorMsg' = m.errorMsg
  /\ stateStartTime' = m.stateStartTime
  /\ heaterStartTime' = m.heaterStartTime
  /\ pumpStartTime' = m.pumpStartTime
  /\ stepStartTime' = m.stepStartTime
  /\ preheatTarget' = m.preheatTarget
  /\ pumpDuration' = m.pumpDuration
  /\ waterDuration' = m.waterDuration
  /\ milkDuration' = m.milkDuration
  /\ mcpReady' = m.mcpReady
  /\ relays' = m.relays
  /\ debounceState' = m.debounceState
  /\ debounceCount' = m.debounceCount

(***************************************************************************)
(* The environment of a tick                                               *)
(***************************************************************************)
\* Clock advance between two consecutive ticks, in ms.  While no cycle runs
\* update() returns at once and only the time that passes matters; it is
\* sampled in coarser steps.
TickSteps(s) == IF s = IDLE \/ s = ERROR_STATE THEN { 5000 } ELSE { 1000 }

\* thermocouple readings, in degrees C
Temps == { NAN, 50, 91, 93, 95, 97, 99, 112 }

\* sensors at rest: what env holds when a tick reads nothing
QuietEnv == [ cup |-> TRUE, temp |-> NAN ]

\* Cup and thermocouple as a tick in state s can find them.  The
\* thermocouple is consulted in the two internal heat phases only, and no
\* sensor at all in Idle and Error; elsewhere it is left at rest.
EnvFor(s) ==
  IF s = IDLE \/ s = ERROR_STATE THEN { QuietEnv }
  ELSE { [ cup |-> FALSE, temp |-> NAN ] }
       \cup { [ cup |-> TRUE, temp |-> t ] :
                t \in IF s \in { HEAT_INTERNAL_PREHEAT, HEAT_INTERNAL_ACTIVE }
                      THEN Temps ELSE { NAN } }

\* Levels of the two limit pins (upper, lower) as a tick in state s can
\* find them; a pin is read in the mixer travel phases only.
PinsFor(s) ==
  { << u, l >> :
      u \in IF s \in { MIX_DOWN, MIX_UP } THEN { LOW, HIGH } ELSE { HIGH },
      l \in IF s = MIX_DOWN THEN { LOW, HIGH } ELSE { HIGH } }

\* what update() reads during a tick at clock value t
Sensed(x, p, t) ==
  [ now |-> t, cup |-> x.cup, temp |-> x.temp, upper |-> p[1], lower |-> p[2] ]

(***************************************************************************)
(* Initial state: HAL::HAL, SettingsManager::SettingsManager and          *)
(* MachineController::MachineController have run; initMCP has not.  The   *)
(* members the constructors leave unset (cfg, preheatTarget, the three    *)
(* durations, order's option fields) are written before they are read.    *)
(***************************************************************************)
Boot(s) ==
  /\ state = IDLE
  /\ order = MkOrder(MODE_NONE, "", "", "", "", "", FALSE, FALSE)
  /\ cfg = [ f \in DOMAIN loadDefaults |-> 0 ]
  /\ currentStep = ""
  /\ errorMsg = ""
  /\ stateStartTime = 0
  /\ heaterStartTime = 0
  /\ pumpStartTime = 0
  /\ stepStartTime = 0
  /\ preheatTarget = 0
  /\ pumpDuration = 0
  /\ waterDuration = 0
  /\ milkDuration = 0
  /\ mcpReady = FALSE
  /\ relays = {}
  /\ debounceState = << HIGH, HIGH >>
  /\ debounceCount = << 0, 0 >>
  /\ current = s
  /\ carriage = 0
  /\ raw = << HIGH, HIGH >>
  /\ streak = << 0, 0 >>
  /\ debounced = << HIGH, HIGH >>
  /\ asked = s
  /\ answer = TRUE
  /\ starts = 0
  /\ stopped = FALSE
  /\ heaterOnSince = 0
  /\ travelSince = 0

\* settings stored earlier (FastSettings) are what begin() loads
Init == Boot(FastSettings)

(***************************************************************************)
(* Operations                                                              *)
(***************************************************************************)
\* HAL::initMCP succeeding (allRelaysOff runs while mcpReady is still false)
InitMCP ==
  /\ ~mcpReady
  /\ Becomes([allRelaysOff(Machine) EXCEPT !.mcpReady = TRUE])
  /\ UNCHANGED << current, carriage, readVars, saveVars, starts, stopped,
                  heaterOnSince, travelSince >>

Start(params) ==
  LET r == start(Machine, params, current, NowRef) IN
  /\ starts < MaxStarts
  /\ starts' = starts + 1
  /\ Becomes(r.m)
  /\ stopped' = (stopped /\ ~r.ret)
  /\ heaterOnSince' = 0
  /\ travelSince' = 0
  /\ UNCHANGED << current, carriage, readVars, saveVars >>

Stop ==
  /\ Becomes(stop(Machine))
  /\ stopped' = (stopped \/ isBusy(Machine))
  /\ UNCHANGED << current, carriage, readVars, saveVars, starts, heaterOnSince,
                  travelSince >>

\* the horizon that covers the running cycle's durations and the next one's
Reach == Max(Horizon(current), Horizon(cfg))

\* heaterOnSince after an update() call d ms later that left the machine m:
\* kept (and aged) while a heat phase lasts, recorded when the call left
\* the internal heater relay energized for the first time in the phases,
\* dropped when the heat phases are over
HeatedSince(m, d) ==
  IF m.state \notin { HEAT_INTERNAL_PREHEAT, HEAT_INTERNAL_ACTIVE } THEN 0
  ELSE IF heaterOnSince # 0 THEN Older(heaterOnSince, d, Reach)
  ELSE IF RELAY_HEATER_INTERNAL \in m.relays THEN NowRef
  ELSE 0

\* travelSince after an update() call d ms later that left the machine m:
\* recorded by the first call that runs in a mixer travel state, kept (and
\* aged) while that state lasts, dropped when it is left
TravelSince(m, d) ==
  IF m.state \notin { MIX_DOWN, MIX_UP } \/ m.state # state THEN 0
  ELSE IF travelSince # 0 THEN Older(travelSince, d, Reach)
  ELSE NowRef

\* update() reading the stored settings at every call
TickedLive(d, x, p) ==
  update(Aged([Machine EXCEPT !.cfg = current], d, Reach), Sensed(x, p, NowRef))

\* one update() call, d ms after the previous one, with sensors x and pins p
Ticked(d, x, p) ==
  update(Aged(Machine, d, Reach), Sensed(x, p, NowRef))

Tick(d, x, p) ==
  /\ LET m == Ticked(d, x, p) IN
       /\ m.debounceCount[1] <= MaxCount
       /\ m.debounceCount[2] <= MaxCount
       /\ Becomes(m)
       /\ heaterOnSince' = HeatedSince(m, d)
       /\ travelSince' = TravelSince(m, d)
  /\ UNCHANGED << current, carriage, readVars, saveVars, starts, stopped >>

Save(s) ==
  LET r == save(current, s) IN
  /\ current' = r.current
  /\ asked' = s
  /\ answer' = r.ret
  /\ UNCHANGED << ctlVars, halVars, carriage, readVars, starts, stopped,
                  heaterOnSince, travelSince >>

Next ==
  \/ InitMCP
  \/ \E params \in Orders : Start(params)
  \/ Stop
  \/ \E d \in TickSteps(state) : \E x \in EnvFor(state) : \E p \in PinsFor(state) :
       Tick(d, x, p)

Spec == Init /\ [][Next]_vars

(***************************************************************************)
(* The machine with its plant: the limit pins follow the mixer carriage,  *)
(* which the two mixer travel relays move.  Both switches are active low: *)
(* the upper pin is LOW exactly while the carriage is at the top, the     *)
(* lower pin exactly while it is at the bottom.                            *)
(***************************************************************************)
\* the carriage one tick later, the relays r having stayed as they were
Moved(c, r) ==
  IF RELAY_MIXER_DOWN \in r /\ RELAY_MIXER_UP \notin r
  THEN IF c < Travel THEN c + 1 ELSE c
  ELSE IF RELAY_MIXER_UP \in r /\ RELAY_MIXER_DOWN \notin r
  THEN IF c > 0 THEN c - 1 ELSE c
  ELSE c

\* levels of the limit pins (upper, lower) with the carriage at c
PinsAt(c) ==
  << IF c = 0 THEN LOW ELSE HIGH, IF c = Travel THEN LOW ELSE HIGH >>

\* one update() call d ms after the previous one, the carriage having moved
TickPlant(d, x) ==
  LET c == Moved(carriage, relays)
      m == Ticked(d, x, PinsAt(c))
  IN
  /\ Becomes(m)
  /\ heaterOnSince' = HeatedSince(m, d)
  /\ travelSince' = TravelSince(m, d)
  /\ carriage' = c
  /\ UNCHANGED << current, readVars, saveVars, starts, stopped >>

\* Cooperative sensors for a tick d ms from now: the cup is in place, and
\* the thermocouple reads the setpoint at the latest CoopHeatMs after the
\* preheat phase was entered and from then on.
CoopEnv(d) ==
  IF state = HEAT_INTERNAL_PREHEAT
  THEN { [ cup |-> TRUE, temp |-> t ] :
           t \in IF NowRef - Older(stateStartTime, d, Reach) >= CoopHeatMs
                 THEN { cfg.intHeaterTemp }
                 ELSE { 50, cfg.intHeaterTemp } }
  ELSE IF state = HEAT_INTERNAL_ACTIVE
  THEN { [ cup |-> TRUE, temp |-> cfg.intHeaterTemp ] }
  ELSE { QuietEnv }

\* the four recipes
Recipes == { o \in Orders : o.mode # MODE_NONE }

\* start() called with the HAL ready and no cycle in flight
StartIdle(params) ==
  /\ mcpReady
  /\ ~isBusy(Machine)
  /\ Start(params)

TickCoop ==
  \E d \in TickSteps(state) : \E x \in CoopEnv(d) : TickPlant(d, x)

\* default settings, a cooperative environment from boot on
InitCoop == Boot(loadDefaults)

NextCoop ==
  \/ InitMCP
  \/ \E params \in Recipes : StartIdle(params)
  \/ TickCoop

SpecCoop == InitCoop /\ [][NextCoop]_vars

(***************************************************************************)
(* Recovery runs: the first cycle meets any cup and thermocouple          *)
(* readings; a cycle that ended in one of the user-recoverable errors is  *)
(* followed by a new start(), and from that start() on the environment is *)
(* cooperative.                                                            *)
(***************************************************************************)
Recoverable == { "NO_CUP", "NO_CUP_DURING_RUN", "HEAT_TIMEOUT" }

StartFirst(params) ==
  /\ starts = 0
  /\ StartIdle(params)

StartAgain(params) ==
  /\ starts > 0
  /\ state = ERROR_STATE
  /\ errorMsg \in Recoverable
  /\ StartIdle(params)

TickFirst ==
  /\ starts <= 1
  /\ \E d \in TickSteps(state) : \E x \in EnvFor(state) : TickPlant(d, x)

TickAfter ==
  /\ starts > 1
  /\ TickCoop

NextRecover ==
  \/ InitMCP
  \/ \E params \in Recipes : StartFirst(params)
  \/ \E params \in Recipes : StartAgain(params)
  \/ TickFirst
  \/ TickAfter

SpecRecover == Init /\ [][NextRecover]_vars

(***************************************************************************)
(* The debounced read on its own: a limit switch is read directly, again  *)
(* and again, the pin at any level each time.                              *)
(***************************************************************************)
\* debounceRead on switch idx with the pin at level
Read(idx, level) ==
  /\ streak[idx] < MaxStreak
  /\ Becomes(debounceStep(Machine, idx, level))
  /\ debounced' = [debounced EXCEPT ![idx] = debounceRead(Machine, idx, level)]
  /\ raw' = [raw EXCEPT ![idx] = level]
  /\ streak' = [streak EXCEPT ![idx] =
                  IF @ > 0 /\ level = raw[idx] THEN @ + 1 ELSE 1]
  /\ UNCHANGED << current, carriage, saveVars, starts, stopped, heaterOnSince,
                  travelSince >>

NextDebounce == \E idx \in { 1, 2 } : \E level \in { LOW, HIGH } : Read(idx, level)

SpecDebounce == Init /\ [][NextDebounce]_vars

(***************************************************************************)
(* Cycles with the settings store written in between: save() at any time, *)
(* before, during and after a cycle run in a cooperative environment.     *)
(***************************************************************************)
NextSettings ==
  \/ InitMCP
  \/ \E params \in Recipes : StartIdle(params)
  \/ TickCoop
  \/ \E s \in SettingsInputs : Save(s)

SpecSettings == Init /\ [][NextSettings]_vars

(***************************************************************************)
(* The settings store on its own: save() called again and again, with     *)
(* every field in turn just outside and just inside each end of its range *)
(* in the settings table, the other fields at accepted values.            *)
(***************************************************************************)
\* the ranges of the settings table
Table ==
  [ tank1Time |-> << 0, 30 >>, tank2Time |-> << 0, 30 >>,
    tank3Time |-> << 0, 30 >>, waterPumpTime |-> << 0, 60 >>,
    milkPumpTime |-> << 0, 60 >>, intHeaterTime |-> << 10, 120 >>,
    intHeaterTemp |-> << 60, 100 >>, extHeaterTime |-> << 10, 180 >>,
    extHeaterTemp |-> << 60, 100 >>, mixerTime |-> << 5, 60 >> ]

InTable(s) == \A f \in DOMAIN Table : s[f] >= Table[f][1] /\ s[f] <= Table[f][2]

\* the values tried for field f
Edges(f) == { Table[f][1] - 1, Table[f][1], Table[f][2], Table[f][2] + 1 }

SaveInputs ==
  UNION { { [base EXCEPT ![f] = v] : v \in Edges(f) } :
            base \in { loadDefaults, FastSettings }, f \in DOMAIN Table }

NextSave == \E s \in SaveInputs : Save(s)

SpecSave == Init /\ [][NextSave]_vars

(***************************************************************************)
(* Operations as seen by the properties                                    *)
(***************************************************************************)
\* some update() call
TickAny ==
  \E d \in TickSteps(state) : \E x \in EnvFor(state) : \E p \in PinsFor(state) :
    Tick(d, x, p)

\* an update() call during which the sensors read x
TickWith(x) ==
  \E d \in TickSteps(state) : \E p \in PinsFor(state) : Tick(d, x, p)

NoCup == [ cup |-> FALSE, temp |-> NAN ]
CupAndTemp(t) == [ cup |-> TRUE, temp |-> t ]

\* a start() call that returns true, one that returns false
StartAccepted ==
  \E o \in Orders : Start(o) /\ start(Machine, o, current, NowRef).ret
StartRejected ==
  \E o \in Orders : Start(o) /\ ~start(Machine, o, current, NowRef).ret

AllRelaysOff == relays = {}
InFlight == state # IDLE /\ state # ERROR_STATE

C2_TickAfterStopIsNoOp ==
  [][(stopped /\ TickAny) => (state' = state /\ relays' = relays)]_vars

(***************************************************************************)
(* C3: a start() that returns false while a cycle is in flight changes    *)
(* neither the FSM state nor the stored order nor any relay output: the   *)
(* running cycle continues undisturbed.                                    *)
(***************************************************************************)
C3_RejectedStartChangesNothing ==
  [][(InFlight /\ StartRejected)
       => (state' = state /\ order' = order /\ relays' = relays)]_vars

(***************************************************************************)
(* C4: start() returns true exactly when the HAL is ready and the state   *)
(* is Idle or Error, and then the state becomes Validate with an empty    *)
(* error; otherwise the error is NOT_READY when the HAL is not ready and  *)
(* BUSY when a cycle is in flight.                                         *)
(***************************************************************************)
C4_StartContract ==
  [][\A o \in Orders :
       Start(o) =>
         LET r == start(Machine, o, current, NowRef) IN
         /\ r.ret <=> (mcpReady /\ state \in { IDLE, ERROR_STATE })
         /\ r.ret => (state' = VALIDATE /\ errorMsg' = "")
         /\ (~r.ret /\ ~mcpReady) => errorMsg' = "NOT_READY"
         /\ (~r.ret /\ mcpReady) => (InFlight /\ errorMsg' = "BUSY")
         /\ ~r.ret => state' # VALIDATE]_vars

\* a second start() accepted, after the first cycle ended in Error
C4_Witness ==
  /\ state = VALIDATE
  /\ starts = 2
  /\ errorMsg = ""
  /\ currentStep = "Stopped"

C6_OverTemperatureHeaterOff ==
  [][\A t \in Temps :
       ( /\ t # NAN
         /\ t > INTERNAL_HEATER_ABS_MAX
         /\ state \in { HEAT_INTERNAL_PREHEAT, HEAT_INTERNAL_ACTIVE }
         /\ TickWith(CupAndTemp(t)) )
       => /\ RELAY_HEATER_INTERNAL \notin relays'
          /\ state = HEAT_INTERNAL_ACTIVE => state' = ERROR_STATE]_vars

(***************************************************************************)
(* C7: a cycle started after a cycle that ended in Error with NO_CUP,     *)
(* NO_CUP_DURING_RUN or HEAT_TIMEOUT, and run in a cooperative            *)
(* environment, does not fail: it never ends in Error.                    *)
(***************************************************************************)
C7_RestartedCycleDoesNotFail ==
  starts > 1 => state # ERROR_STATE

(***************************************************************************)
(* C8: with default settings, the HAL ready and a cooperative environment *)
(* (cup in place, preheat target reached in time, limit switches          *)
(* following the carriage), no started cycle of the four recipes ends in  *)
(* Error: each runs on to Done and Idle with an empty error.              *)
(***************************************************************************)
C8_CooperativeCycleCompletes ==
  state # ERROR_STATE /\ errorMsg = ""

(***************************************************************************)
(* C9: right after a start() that returns true, and whenever the state is *)
(* Idle, heaterStartTime, pumpStartTime and stepStartTime are all zero.   *)
(***************************************************************************)
ScratchCleared ==
  heaterStartTime = 0 /\ pumpStartTime = 0 /\ stepStartTime = 0

C9_ScratchResetAtCycleBoundary ==
  /\ [][StartAccepted => ScratchCleared']_vars
  /\ [](state = IDLE => ScratchCleared)

(***************************************************************************)
(* C10: in Error, tick() and stop() leave state, relays and error kind    *)
(* unchanged; Error is left only by a start() that returns true, which    *)
(* enters Validate with an empty error; tick() in Idle changes nothing.   *)
(***************************************************************************)
\* the clock frame moves recorded start times; recorded stays recorded
SameRecorded(a, b) == (a = 0) <=> (b = 0)

TickChangedNothing ==
  /\ UNCHANGED << state, order, cfg, currentStep, errorMsg, preheatTarget,
                  pumpDuration, waterDuration, milkDuration, halVars >>
  /\ SameRecorded(stateStartTime, stateStartTime')
  /\ SameRecorded(heaterStartTime, heaterStartTime')
  /\ SameRecorded(pumpStartTime, pumpStartTime')
  /\ SameRecorded(stepStartTime, stepStartTime')

C10_ErrorIsSticky ==
  [][/\ (state = ERROR_STATE /\ TickAny) => TickChangedNothing
     /\ (state = ERROR_STATE /\ Stop)
          => UNCHANGED << state, relays, errorMsg >>
     /\ (state = ERROR_STATE /\ state' # ERROR_STATE)
          => (StartAccepted /\ state' = VALIDATE /\ errorMsg' = "")
     /\ (state = IDLE /\ TickAny) => TickChangedNothing]_vars

\* Error has outlasted two ticks
C10_Witness ==
  /\ state = ERROR_STATE
  /\ errorMsg = "NO_CUP_DURING_RUN"
  /\ stateStartTime <= NowRef - 10000

(***************************************************************************)
(* C11: after stop() was called in flight, and until the next start()     *)
(* that returns true, the error kind is ABORTED and the FSM is in Error   *)
(* or SafeStop.                                                            *)
(***************************************************************************)
C11_StopReportsAborted ==
  stopped => (errorMsg = "ABORTED" /\ state \in { ERROR_STATE, SAFE_STOP })

HeaterOn == RELAY_HEATER_INTERNAL \in relays

InBand(t) == t >= cfg.intHeaterTemp - 2 /\ t <= cfg.intHeaterTemp + 2

\* a tick in HeatInternalActive during which the thermocouple reads t
ActiveTick(t) ==
  /\ t # NAN
  /\ state = HEAT_INTERNAL_ACTIVE
  /\ TickWith(CupAndTemp(t))

C13_BangBangHysteresis ==
  [][\A t \in Temps :
       ActiveTick(t) =>
         /\ InBand(t) => (HeaterOn' <=> HeaterOn)
         /\ t < cfg.intHeaterTemp - 2 => HeaterOn'
         /\ t > cfg.intHeaterTemp + 2 => ~HeaterOn']_vars

(***************************************************************************)
(* C13 amended: the same on every such tick after which the state is      *)
(* still HeatInternalActive; a tick that ends the phase (pumps complete,  *)
(* HEAT_TIMEOUT, SENSOR_FAIL) leaves the heater OFF whatever the reading. *)
(***************************************************************************)
C13_BangBangWhilePhaseLasts ==
  [][\A t \in Temps :
       ActiveTick(t) =>
         IF state' = HEAT_INTERNAL_ACTIVE
         THEN /\ InBand(t) => (HeaterOn' <=> HeaterOn)
              /\ t < cfg.intHeaterTemp - 2 => HeaterOn'
              /\ t > cfg.intHeaterTemp + 2 => ~HeaterOn'
         ELSE ~HeaterOn']_vars

\* the heater was switched off above the band and the pumps run on
C13_Witness ==
  /\ state = HEAT_INTERNAL_ACTIVE
  /\ ~HeaterOn
  /\ pumpStartTime # 0
  /\ pumpStartTime < NowRef

(***************************************************************************)
(* C14: for each limit switch, once the pin has given at least            *)
(* DEBOUNCE_READS identical samples in a row the debounced read equals    *)
(* the pin level, for as long as the level stays the same; before that it *)
(* equals the inverse of the pin level.                                    *)
(***************************************************************************)
C14_DebounceMonotone ==
  \A idx \in { 1, 2 } :
    /\ streak[idx] >= DEBOUNCE_READS => debounced[idx] = raw[idx]
    /\ (streak[idx] > 0 /\ streak[idx] < DEBOUNCE_READS)
         => debounced[idx] = 1 - raw[idx]

(***************************************************************************)
(* C15: the settings a cycle runs with are those stored at its accepted   *)
(* start(): cfg changes only at a start() that returns true, to the       *)
(* stored settings of that moment; save() changes the stored settings     *)
(* only, nothing of the controller or the HAL, so a save() during a cycle *)
(* takes effect from the next start().                                     *)
(***************************************************************************)
C15_SettingsSnapshot ==
  [][/\ StartAccepted => cfg' = current
     /\ cfg' # cfg => StartAccepted
     /\ (\E s \in SettingsInputs : Save(s)) => UNCHANGED << ctlVars, halVars >>]_vars

\* a cycle in its mixing phase whose settings were overwritten on the way
C15_Witness ==
  /\ state = MIX_RUN
  /\ cfg # current
  /\ stepStartTime # 0

(***************************************************************************)
(* C16: save(s) returns true exactly when every field of s lies in its    *)
(* range of the settings table; then the stored settings are s; when it   *)
(* returns false the stored settings are what they were.                  *)
(***************************************************************************)
C16_SaveContract ==
  [][\A s \in SaveInputs :
       Save(s) =>
         /\ answer' = InTable(s)
         /\ InTable(s) => current' = s
         /\ ~InTable(s) => current' = current]_vars

\* a rejected save() after an accepted one that changed the stored settings
C16_Witness ==
  /\ ~answer
  /\ asked.extHeaterTemp = 101
  /\ current # FastSettings

(***************************************************************************)
(* C17: every state change made by a tick is to the next state of the     *)
(* ordered recipe's graph, or Done -> Idle, or to Error; a cleaning cycle *)
(* is never in a solids, heat or mix state.                               *)
(***************************************************************************)
\* the state graph of each recipe, in order
Graph(mode) ==
  CASE mode = MODE_COFFEE ->
         << VALIDATE, DISPENSE_SOLIDS, DISPENSE_LIQUID, HEAT_EXTERNAL,
            MIX_DOWN, MIX_RUN, MIX_UP, DONE >>
    [] mode \in { MODE_HOTWATER, MODE_NESCAFE } ->
         << VALIDATE, DISPENSE_SOLIDS, HEAT_INTERNAL_PREHEAT,
            HEAT_INTERNAL_ACTIVE, MIX_DOWN, MIX_RUN, MIX_UP, DONE >>
    [] mode = MODE_CLEANING -> << VALIDATE, DISPENSE_LIQUID, DONE >>
    [] OTHER -> << >>

\* b comes right after a in the graph g
NextIn(g, a, b) == \E i \in 1 .. Len(g) - 1 : g[i] = a /\ g[i + 1] = b

OnGraph(g, a) == \E i \in 1 .. Len(g) : g[i] = a

C17_RecipeFollowsGraph ==
  /\ [][(TickAny /\ state' # state) =>
          \/ NextIn(Graph(order.mode), state, state')
          \/ (state = DONE /\ state' = IDLE)
          \/ state' = ERROR_STATE]_vars
  /\ [](InFlight => (order.mode = MODE_NONE \/ OnGraph(Graph(order.mode), state)))

\* a coffee cycle has run through its whole graph
C17_Witness ==
  /\ state = DONE
  /\ order.mode = MODE_COFFEE
  /\ errorMsg = ""


(***************************************************************************)
(* C18.  The liquid phase runs the selected pump for its duration.         *)
(***************************************************************************)
\* the pumps the order selects for DispenseLiquid
SelectedPumps ==
  IF order.mode = MODE_COFFEE
  THEN IF order.brewBase = "Water" THEN { RELAY_PUMP_WATER } ELSE { RELAY_PUMP_MILK }
  ELSE IF order.mode = MODE_CLEANING
  THEN (IF order.cleanWater THEN { RELAY_PUMP_WATER } ELSE {})
       \cup (IF order.cleanMilk THEN { RELAY_PUMP_MILK } ELSE {})
  ELSE {}

\* the duration (ms) DispenseLiquid computes for the order under cfg
LiquidDuration ==
  IF order.mode = MODE_COFFEE
  THEN getSizeMultiplier(Machine) * 1000
       * (IF order.brewBase = "Water" THEN cfg.waterPumpTime ELSE cfg.milkPumpTime)
  ELSE IF order.mode = MODE_CLEANING
  THEN 1000 * Max(IF order.cleanWater THEN cfg.waterPumpTime ELSE 0,
                  IF order.cleanMilk THEN cfg.milkPumpTime ELSE 0)
  ELSE 0

\* the state was entered by the previous step: no update() has run in it yet
JustEntered == stateStartTime = NowRef

\* C18: in a cycle that enters DispenseLiquid with the relay expander up
\* and no stop() in the cycle, whatever came before the cycle, an update()
\* call that finds the cup (i) on the first call in the state records the
\* pump start time, computes the duration and energizes the selected
\* pumps, (ii) leaves the selected pumps energized as long as the state
\* lasts, and (iii) moves on to the next phase only after the pumps have
\* been energized, when the duration is positive.
C18_LiquidPhaseRunsPump ==
  [][(/\ state = DISPENSE_LIQUID /\ mcpReady /\ ~stopped
      /\ LiquidDuration > 0
      /\ TickWith(CupAndTemp(NAN)))
     => /\ JustEntered => (pumpStartTime' = NowRef /\ pumpDuration' = LiquidDuration)
        /\ state' = DISPENSE_LIQUID => SelectedPumps \subseteq relays'
        /\ state' \notin { DISPENSE_LIQUID, ERROR_STATE }
             => SelectedPumps \subseteq relays]_vars


(***************************************************************************)
(* C19.  The internal heater's time budget.                                *)
(***************************************************************************)
HeatPhase == state \in { HEAT_INTERNAL_PREHEAT, HEAT_INTERNAL_ACTIVE }

\* the budget (ms) of the running cycle
HeatBudget == cfg.intHeaterTime * 1000

\* for how long (ms) the heater has been on in this cycle, at an update()
\* call d ms from now
HeatedFor(d) == NowRef - Older(heaterOnSince, d, Reach)

\* an update() call in a heat phase that finds the cup, in a cycle with the
\* relay expander up and no stop() in it
HeatTick(d) ==
  /\ HeatPhase /\ mcpReady /\ ~stopped
  /\ \E t \in Temps : \E p \in PinsFor(state) : Tick(d, CupAndTemp(t), p)

\* the first half of C19 on its own: an update() call that finds the
\* heater switched on for longer than the budget aborts with HEAT_TIMEOUT,
\* heater and pumps off
C19_TimeoutWhenOverBudget ==
  [][\A d \in TickSteps(state) :
       (HeatTick(d) /\ heaterOnSince # 0 /\ HeatedFor(d) > HeatBudget)
       => /\ state' = ERROR_STATE /\ errorMsg' = "HEAT_TIMEOUT"
          /\ relays' \cap { RELAY_HEATER_INTERNAL, RELAY_PUMP_WATER,
                            RELAY_PUMP_MILK } = {}]_vars

\* C19: in a heat phase, an update() call that finds the cup aborts the
\* cycle with HEAT_TIMEOUT, internal heater and both pumps off, if the
\* internal heater was switched on in this cycle more than
\* int_heater_time * 1000 ms ago, and does not raise HEAT_TIMEOUT if the
\* heater has been on in this cycle for no longer than that (or not at all).
C19_HeaterBudget ==
  [][\A d \in TickSteps(state) :
       HeatTick(d)
       => IF heaterOnSince # 0 /\ HeatedFor(d) > HeatBudget
          THEN /\ state' = ERROR_STATE /\ errorMsg' = "HEAT_TIMEOUT"
               /\ relays' \cap { RELAY_HEATER_INTERNAL, RELAY_PUMP_WATER,
                                 RELAY_PUMP_MILK } = {}
          ELSE errorMsg' # "HEAT_TIMEOUT"]_vars


(***************************************************************************)
(* C20.  Mixer travel: start of travel and travel timeout.                 *)
(***************************************************************************)
\* both limit reads of the first-entry check return true, the pins at p
BothLimitsRead(p) ==
  /\ debounceRead(Machine, 1, p[1]) = LOW
  /\ debounceRead(Machine, 2, p[2]) = LOW

\* for how long (ms) the travel state has been running, at an update()
\* call d ms from now: 0 at the first call in the state
TravelledFor(d) ==
  IF travelSince = 0 THEN 0 ELSE NowRef - Older(travelSince, d, Reach)

MixerRelays == { RELAY_MIXER_UP, RELAY_MIXER_DOWN, RELAY_MIXER_ROTATE }

\* what C20 asks of an update() call in a travel state, d ms from now, the
\* pins at p
TravelRule(d, p) ==
  LET relay == IF state = MIX_DOWN THEN RELAY_MIXER_DOWN ELSE RELAY_MIXER_UP
      next == IF state = MIX_DOWN THEN MIX_RUN ELSE DONE
  IN  IF state = MIX_DOWN /\ travelSince = 0 /\ BothLimitsRead(p)
      THEN state' = ERROR_STATE /\ errorMsg' = "LIMIT_INVALID"
      ELSE /\ errorMsg' # "LIMIT_INVALID"
           /\ state' = state => relay \in relays'
           /\ state' # next
                => IF TravelledFor(d) > LIMIT_TIMEOUT_MS
                   THEN /\ state' = ERROR_STATE
                        /\ errorMsg' = "TIMEOUT_LIMIT"
                        /\ relays' \cap MixerRelays = {}
                   ELSE errorMsg' # "TIMEOUT_LIMIT"

\* C20: in MixDown (MixUp), in a cycle with no stop() in it, whatever came
\* before the cycle, an update() call that finds the cup (i) on the first
\* call in MixDown aborts with LIMIT_INVALID exactly if both limit reads
\* return true, (ii) leaves MixerDown (MixerUp) energized as long as the
\* state lasts, from the first call on, and (iii) when the limit read does
\* not end the travel, aborts with TIMEOUT_LIMIT, mixer relays off, exactly
\* if more than LIMIT_TIMEOUT_MS have passed since the first call in the
\* state.
C20_MixerTravel ==
  [][\A d \in TickSteps(state) : \A p \in PinsFor(state) :
       (/\ state \in { MIX_DOWN, MIX_UP } /\ mcpReady /\ ~stopped
        /\ Tick(d, CupAndTemp(NAN), p))
       => TravelRule(d, p)]_vars

\* the same for the first cycle after boot, which enters the travel states
\* with no start time left over
C20_MixerTravelFirstCycle ==
  [][\A d \in TickSteps(state) : \A p \in PinsFor(state) :
       (/\ state \in { MIX_DOWN, MIX_UP } /\ mcpReady /\ ~stopped /\ starts = 1
        /\ Tick(d, CupAndTemp(NAN), p))
       => TravelRule(d, p)]_vars


(***************************************************************************)
(* One cycle of any valid order under any accepted configuration, the     *)
(* environment prompt: the cup is in place, the thermocouple reads the    *)
(* setpoint from its first reading, and the limit pins follow the mixer   *)
(* carriage.                                                               *)
(***************************************************************************)
Sizes == { "Single", "Double" }
Sugars == { "Low", "Medium", "High" }

\* every order the command surface can build
AllOrders ==
  { MkOrder(MODE_COFFEE, b, "", "", z, g, FALSE, FALSE) :
      b \in { "Water", "Milk" }, z \in Sizes, g \in Sugars }
  \cup { MkOrder(MODE_HOTWATER, "", h, "", z, g, FALSE, FALSE) :
           h \in { "water", "milk_medium", "milk_extra" }, z \in Sizes, g \in Sugars }
  \cup { MkOrder(MODE_NESCAFE, "", "", r, z, g, FALSE, FALSE) :
           r \in { "none", "medium", "extra" }, z \in Sizes, g \in Sugars }
  \cup { MkOrder(MODE_CLEANING, "", "", "", "Single", "Low", k, w) :
           k \in BOOLEAN, w \in BOOLEAN }

\* the configurations save() accepts, among those tried
AcceptedSettings == { s \in SaveInputs : validate(s) }

PromptEnv ==
  [ cup |-> TRUE, temp |-> IF HeatPhase THEN cfg.intHeaterTemp ELSE NAN ]

TickPrompt == \E d \in TickSteps(state) : TickPlant(d, PromptEnv)

InitAccepted == \E s \in AcceptedSettings : Boot(s)

NextAccepted ==
  \/ InitMCP
  \/ \E params \in AllOrders : StartFirst(params)
  \/ TickPrompt

SpecAccepted == InitAccepted /\ [][NextAccepted]_vars


(***************************************************************************)
(* C21.  Phase durations.                                                  *)
(***************************************************************************)
size_mult == IF order.size = "Double" THEN 2 ELSE 1
sugar_mult ==
  IF order.sugar = "High" THEN 4 ELSE IF order.sugar = "Medium" THEN 2 ELSE 1

TankRelays == { RELAY_TANK1_SUGAR, RELAY_TANK2_COFFEE, RELAY_TANK3_NESCAFE }
PumpRelays == { RELAY_PUMP_WATER, RELAY_PUMP_MILK }

\* the tanks of the order's recipe, and how long (ms) its DispenseSolids lasts
SolidsTanks ==
  IF order.mode = MODE_COFFEE THEN { RELAY_TANK1_SUGAR, RELAY_TANK2_COFFEE }
  ELSE IF order.mode = MODE_NESCAFE THEN { RELAY_TANK1_SUGAR, RELAY_TANK3_NESCAFE }
  ELSE IF order.mode = MODE_HOTWATER THEN { RELAY_TANK1_SUGAR }
  ELSE {}

SolidsMs ==
  IF order.mode = MODE_COFFEE
  THEN (sugar_mult * cfg.tank1Time + size_mult * cfg.tank2Time) * 1000
  ELSE IF order.mode = MODE_NESCAFE
  THEN (sugar_mult * cfg.tank1Time + size_mult * cfg.tank3Time) * 1000
  ELSE sugar_mult * cfg.tank1Time * 1000

SolidsNext ==
  IF order.mode = MODE_COFFEE THEN DISPENSE_LIQUID ELSE HEAT_INTERNAL_PREHEAT

\* Instant: quarters of the size-scaled base times given to water and milk
WaterQuarters ==
  IF order.milkRatio = "none" THEN 4 ELSE IF order.milkRatio = "medium" THEN 3 ELSE 2
MilkQuarters == 4 - WaterQuarters

WaterMs == (WaterQuarters * size_mult * cfg.waterPumpTime * 1000) \div 4
MilkMs == (MilkQuarters * size_mult * cfg.milkPumpTime * 1000) \div 4

\* the pump duration (ms) of HeatInternalActive
ActiveMs ==
  IF order.mode = MODE_NESCAFE THEN WaterMs + MilkMs
  ELSE IF order.hotLiquid = "water" THEN size_mult * cfg.waterPumpTime * 1000
  ELSE IF order.hotLiquid = "milk_medium" THEN size_mult * cfg.milkPumpTime * 1000
  ELSE size_mult * cfg.milkPumpTime * 2000

\* the pump that runs in HeatInternalActive once el ms of pumping have passed
ActivePump(el) ==
  IF order.mode = MODE_NESCAFE
  THEN IF el > WaterMs /\ MilkMs > 0 THEN { RELAY_PUMP_MILK } ELSE { RELAY_PUMP_WATER }
  ELSE IF order.hotLiquid = "water" THEN { RELAY_PUMP_WATER } ELSE { RELAY_PUMP_MILK }

\* ms since the state was entered, and since the pumps were started, at an
\* update() call d ms from now
SinceEntry(d) == NowRef - Older(stateStartTime, d, Reach)
Pumped(d) == IF pumpStartTime = 0 THEN 0 ELSE NowRef - Older(pumpStartTime, d, Reach)

\* C21: for every order and every accepted configuration, with the cup in
\* place: (i) DispenseSolids keeps exactly the recipe's tanks energized
\* until the first update() call more than (sugar_mult * tank1_time +
\* size_mult * tank2_time or tank3_time) * 1000 ms (HotDrink: sugar_mult *
\* tank1_time * 1000 ms) after the state was entered, which releases them
\* and moves on; (ii) the first call in HeatInternalActive computes
\* pump_duration (and for Instant water_duration and milk_duration) by the
\* specified formulas; (iii) as long as HeatInternalActive lasts, PumpWater
\* runs first and PumpMilk only once water_duration has elapsed (HotDrink:
\* the selected pump), and pumping ends after pump_duration.
C21_PhaseDurations ==
  [][\A d \in TickSteps(state) :
       TickPlant(d, PromptEnv)
       => /\ state = DISPENSE_SOLIDS
               => IF SinceEntry(d) > SolidsMs
                  THEN state' = SolidsNext /\ relays' \cap TankRelays = {}
                  ELSE state' = state /\ relays' \cap TankRelays = SolidsTanks
          /\ (state = HEAT_INTERNAL_ACTIVE /\ pumpStartTime = 0)
               => /\ pumpDuration' = ActiveMs
                  /\ order.mode = MODE_NESCAFE
                       => waterDuration' = WaterMs /\ milkDuration' = MilkMs
          /\ (state = HEAT_INTERNAL_ACTIVE /\ state' # ERROR_STATE)
               => IF Pumped(d) >= ActiveMs
                  THEN state' = MIX_DOWN /\ relays' \cap PumpRelays = {}
                  ELSE state' = state /\ relays' \cap PumpRelays = ActivePump(Pumped(d))]_vars

\* an Instant cycle with medium milk, defaults, Single: the water pump has
\* run its 3750 ms and the milk pump has taken over
C21_Witness ==
  /\ state = HEAT_INTERNAL_ACTIVE /\ order.mode = MODE_NESCAFE
  /\ waterDuration = 3750 /\ milkDuration = 1000 /\ pumpDuration = 4750
  /\ relays \cap PumpRelays = { RELAY_PUMP_MILK }


(***************************************************************************)
(* C22.  A relay is energized only in the phase that owns it.              *)
(***************************************************************************)
\* the states in which relay r may be energized
Owners(r) ==
  IF r \in TankRelays THEN { DISPENSE_SOLIDS }
  ELSE IF r \in PumpRelays THEN { DISPENSE_LIQUID, HEAT_INTERNAL_ACTIVE }
  ELSE IF r = RELAY_HEATER_INTERNAL
  THEN { HEAT_INTERNAL_PREHEAT, HEAT_INTERNAL_ACTIVE }
  ELSE IF r = RELAY_HEATER_EXTERNAL THEN { HEAT_EXTERNAL }
  ELSE IF r = RELAY_MIXER_DOWN THEN { MIX_DOWN }
  ELSE IF r = RELAY_MIXER_ROTATE THEN { MIX_RUN }
  ELSE IF r = RELAY_MIXER_UP THEN { MIX_UP }
  ELSE {}

UpperAsserted(p) == p[1] = LOW
LowerAsserted(p) == p[2] = LOW

\* C23: an update() call leaves MixDown for MixRun only if the raw lower
\* limit switch is asserted during the call, leaves MixUp for Done only if
\* the raw upper limit switch is asserted, and raises LIMIT_INVALID only if
\* both raw switches are asserted.
C23_EndpointsOnlyWhenPressed ==
  [][\A d \in TickSteps(state) : \A x \in EnvFor(state) : \A p \in PinsFor(state) :
       Tick(d, x, p)
       => /\ (state = MIX_DOWN /\ state' = MIX_RUN) => LowerAsserted(p)
          /\ (state = MIX_UP /\ state' = DONE) => UpperAsserted(p)
          /\ (state = MIX_DOWN /\ errorMsg' = "LIMIT_INVALID")
               => (UpperAsserted(p) /\ LowerAsserted(p))]_vars


(***************************************************************************)
(* C24.  Every accepted configuration is runnable.                         *)
(***************************************************************************)
\* C24: under every configuration save() accepts and for every valid
\* order, a cycle run with the cup in place, the internal temperature at
\* the target from its first reading and the limit pins following the
\* carriage never ends in Error, and the pump duration computed in
\* HeatInternalActive is within the int_heater_time budget.
C24_AcceptedConfigurationRuns ==
  /\ state # ERROR_STATE
  /\ errorMsg = ""
  /\ (state = HEAT_INTERNAL_ACTIVE /\ pumpStartTime # 0)
       => pumpDuration <= HeatBudget

=============================================================================
